---- MODULE Spec2Model ----
(***************************************************************************)
(* Azkaban client: the Session request dispatcher with its workflow        *)
(* operations (src/azkaban/session.py) and the Project / Job archive build *)
(* model (src/azkaban.py).                                                 *)
(***************************************************************************)
EXTENDS Integers, Sequences, FiniteSets, TLC

(***************************************************************************)
(* Bounds of the model.                                                    *)
(***************************************************************************)
\* largest refresh budget (the `attempts` argument) a caller passes
MaxAttempts == 2
\* node ids of a flow, and job names a caller may request, are 1..MaxNodes
MaxNodes == 3
\* longest `jobs` list passed to run_workflow
MaxJobs == 2
\* longest list of option dictionaries given to a Job
MaxDicts == 2
\* most items of one option dictionary
MaxItems == 2

(***************************************************************************)
(* Values.                                                                 *)
(***************************************************************************)
\* Python's None, as a session id and as the `res` of a request not sent
None == "<None>"
\* session ids the server's login action hands out
LoginTokens == {"s1", "s2"}
\* values self.id can have at construction (session_id=None, '' or a string)
InitialIds == {None, "", "s0"}
ProjectNames == {"p", "q"}
NodeIds == 1 .. MaxNodes
\* the `jobs` argument: omitted (None), or a list of names (duplicates
\* allowed)
JobArg(g, l) == [given |-> g, list |-> l]
JobArgs ==
  {JobArg(FALSE, <<>>)}
  \cup {JobArg(TRUE, l) : l \in UNION {[1 .. n -> NodeIds] : n \in 0 .. MaxJobs}}

\* What the model keeps of a response: whether its text holds the marker
\* '<!-- /.login -->', which projects' deletion its text confirms, whether it
\* decodes as JSON, whether that JSON has an 'error' field, and the ids of
\* its 'nodes'.
Response(m, d, j, e, n) ==
  [isNone |-> FALSE, marker |-> m, deleted |-> d, json |-> j, error |-> e,
   nodes |-> n]
\* the `res` of a pass that sent nothing (line 86: None)
NoneRes ==
  [isNone |-> TRUE, marker |-> FALSE, deleted |-> {}, json |-> FALSE,
   error |-> FALSE, nodes |-> {}]

\* the login page an expired session is answered with: of a response that
\* holds the marker _request reads nothing else
LoginPage == Response(TRUE, {}, FALSE, FALSE, {})

\* the responses the server may give to a request of operation kind k; the
\* text of a delete response may hold the marker beside a confirmation
Responses(k) ==
  CASE k = "raw" ->
         {LoginPage, Response(FALSE, {}, TRUE, FALSE, {})}
    [] k = "delete" ->
         {Response(m, d, j, j /\ e, {}) :
            m \in BOOLEAN, d \in SUBSET ProjectNames, j \in BOOLEAN,
            e \in BOOLEAN}
    [] k = "info" ->
         {LoginPage}
         \cup {Response(FALSE, {}, TRUE, FALSE, n) : n \in SUBSET NodeIds}
         \cup {Response(FALSE, {}, j, j, {}) : j \in BOOLEAN}
    [] OTHER ->
         {LoginPage}
         \cup {Response(FALSE, {}, j, j /\ e, {}) : j \in BOOLEAN, e \in BOOLEAN}

Range(s) == {s[i] : i \in DOMAIN s}

\* the orders in which a set can be iterated
Orders(S) ==
  {s \in [1 .. Cardinality(S) -> S] : Range(s) = S}

VARIABLES
  id,          \* Session.id
  pc,          \* position of the running call
  op,          \* the workflow operation in progress and its arguments
  stage,       \* which request of the operation _request is serving
  attempts,    \* _request's local `attempts`
  budget,      \* the value `attempts` had on entry to _request
  use_cookies, \* _request's `use_cookies`
  kw,          \* the session id held in kwargs (cookie or data field)
  res,         \* _request's local `res`
  nreq,        \* requests sent by the running _request call
  nref,        \* refreshes begun by the running _request call
  wire,        \* every message sent to the server by the operation
  outcome,     \* how the operation ended
  disabled,    \* run_workflow's local `disabled`
  errnames,    \* the names listed in run_workflow's 'Jobs not found' error
  files,       \* Project._files
  jobs,        \* Project._jobs
  disk,        \* the absolute paths that exist on disk
  pcall,       \* the last add_file / add_job call and its arguments
  perr,        \* what that call raised ("ok" when it returned)
  hooked,      \* the on_add invocations, in order
  built,       \* the on_build invocations of the running build, in order
  bpc,         \* position of the running build
  cur,         \* build's loop variable `name`
  todoJ,       \* jobs the first loop of build has not reached
  todoF,       \* files the second loop of build has not reached
  temp,        \* the temporary job files on disk, with their text
  writer,      \* the ZipFile: "none", "open" or "closed"
  archive,     \* the members written to the archive, in order
  bexc,        \* an exception is propagating out of build
  prev,        \* the members of the last successful build
  havePrev,    \* such a build exists and no registration followed it
  job_options, \* Job._options of a job on its own
  combined,    \* what its `options` property returned
  text,        \* the lines its `generate` wrote
  calls,       \* the locals of each of two concurrent _request calls
  owner,       \* the call whose login stored the session's id (0: none)
  upc,         \* position of the running Project.upload
  session_id,  \* upload's `session_id`
  login_res,   \* upload's local `res`, the decoded login response
  upload_res,  \* the decoded response to the upload request
  uraised,     \* what upload raised
  tmparchive   \* the archive upload built exists at the temporary path

svars ==
  <<id, pc, op, stage, attempts, budget, use_cookies, kw, res, nreq, nref,
    wire, outcome, disabled, errnames>>
pvars ==
  <<files, jobs, disk, pcall, perr, hooked, built, bpc, cur, todoJ, todoF,
    temp, writer, archive, bexc, prev, havePrev>>
ovars == <<job_options, combined, text>>
cvars == <<calls, owner>>
uvars == <<upc, session_id, login_res, upload_res, uraised, tmparchive>>
vars == <<svars, pvars, ovars, cvars, uvars>>

NoOp == [kind |-> "none", name |-> "", jobs |-> JobArg(FALSE, <<>>)]

(***************************************************************************)
(* Session._request, lines 66-99.                                          *)
(***************************************************************************)
\* the test of line 86, had it been `if self.id is not None`
TruthyNotNone(t) == t # None
\* line 86: `if self.id`
Truthy(t) == t # None /\ t # ""

\* the session id in kwargs, had it been written on the first pass only
AttachedIdStale(current, held) == IF held = "<unset>" THEN current ELSE held
\* lines 82-85: the session id written into kwargs at the top of every pass
AttachedId(current, held) == current

\* the test of line 87, had it not looked for the marker
AuthFailedNoMarker(r) == r.isNone
\* line 87: `res is None or '<!-- /.login -->' in res.text`
AuthFailed(r) == r.isNone \/ r.marker

\* the test of line 90, had it been `attempts >= 0`
CanRefreshAlways(a) == a >= 0
\* line 90: `attempts > 0`
CanRefresh(a) == a > 0

\* a message on the wire: the action, the session id it carries and where,
\* the disabled list of an executeFlow, and what came back: a response, or
\* an exception raised by the transport or by the decoding of a login
Msg(action, tok, place, dis, reply, raised) ==
  [action |-> action, tok |-> tok, place |-> place, disabled |-> dis,
   reply |-> reply, raised |-> raised]

\* the request of the stage being served, as azkaban_request sends it
RequestMsg(tok, reply, raised) ==
  Msg(stage, tok, IF use_cookies THEN "cookie" ELSE "data",
      IF stage = "executeFlow" THEN disabled ELSE <<>>, reply, raised)

\* entry to _request: lines 66-80
Enter(st, uc, n) ==
  /\ stage' = st
  /\ use_cookies' = uc
  /\ attempts' = n
  /\ budget' = n
  /\ kw' = "<unset>"
  /\ res' = NoneRes
  /\ nreq' = 0
  /\ nref' = 0
  /\ pc' = "loop"

\* lines 82-86 with a session id: the request is sent and answered
SendRequest ==
  /\ pc = "loop"
  /\ Truthy(id)
  /\ kw' = AttachedId(id, kw)
  /\ \E r \in Responses(stage) :
       /\ res' = r
       /\ wire' = Append(wire, RequestMsg(AttachedId(id, kw), r, FALSE))
  /\ nreq' = nreq + 1
  /\ pc' = "check"
  /\ UNCHANGED <<id, op, stage, attempts, budget, use_cookies, nref, outcome,
                 disabled, errnames, pvars, ovars, cvars, uvars>>

\* lines 82-86, had the transport failure been caught and retried
SendRaisesRetried ==
  /\ pc = "loop"
  /\ Truthy(id)
  /\ kw' = AttachedId(id, kw)
  /\ wire' = Append(wire, RequestMsg(AttachedId(id, kw), NoneRes, TRUE))
  /\ nreq' = nreq + 1
  /\ res' = NoneRes
  /\ pc' = "check"
  /\ UNCHANGED <<id, op, stage, attempts, budget, use_cookies, nref, outcome,
                 disabled, errnames, pvars, ovars, cvars, uvars>>

\* lines 82-86 with a session id: azkaban_request raises (transport failure)
SendRaises ==
  /\ pc = "loop"
  /\ Truthy(id)
  /\ kw' = AttachedId(id, kw)
  /\ wire' = Append(wire, RequestMsg(AttachedId(id, kw), NoneRes, TRUE))
  /\ nreq' = nreq + 1
  /\ outcome' = "transport"
  /\ pc' = "end"
  /\ UNCHANGED <<id, op, stage, attempts, budget, use_cookies, res, nref,
                 disabled, errnames, pvars, ovars, cvars, uvars>>

\* lines 82-86 without a session id: nothing is sent, res is None
SendSkipped ==
  /\ pc = "loop"
  /\ ~Truthy(id)
  /\ kw' = AttachedId(id, kw)
  /\ res' = NoneRes
  /\ pc' = "check"
  /\ UNCHANGED <<id, op, stage, attempts, budget, use_cookies, nreq, nref,
                 wire, outcome, disabled, errnames, pvars, ovars,
                 cvars, uvars>>

\* lines 87-91: authentication failure with attempts left
CheckRefresh ==
  /\ pc = "check"
  /\ AuthFailed(res)
  /\ CanRefresh(attempts)
  /\ nref' = nref + 1
  /\ pc' = "refresh"
  /\ UNCHANGED <<id, op, stage, attempts, budget, use_cookies, kw, res, nreq,
                 wire, outcome, disabled, errnames, pvars, ovars,
                 cvars, uvars>>

\* lines 87-97: authentication failure with no attempt left
CheckExhausted ==
  /\ pc = "check"
  /\ AuthFailed(res)
  /\ ~CanRefresh(attempts)
  /\ outcome' = "exhausted"
  /\ pc' = "end"
  /\ UNCHANGED <<id, op, stage, attempts, budget, use_cookies, kw, res, nreq,
                 nref, wire, disabled, errnames, pvars, ovars, cvars, uvars>>

\* lines 98-99: the response is returned to the calling operation
CheckReturn ==
  /\ pc = "check"
  /\ ~AuthFailed(res)
  /\ pc' = "ret"
  /\ UNCHANGED <<id, op, stage, attempts, budget, use_cookies, kw, res, nreq,
                 nref, wire, outcome, disabled, errnames, pvars, ovars,
                 cvars, uvars>>

(***************************************************************************)
(* azkaban.util.extract_json, as the operations use it: a body that does   *)
(* not decode raises ValueError, a decoded body with an 'error' field      *)
(* raises the server's error, any other decoded body is returned.          *)
(***************************************************************************)
ExtractJson(r) ==
  IF ~r.json THEN "valueerror" ELSE IF r.error THEN "remote" ELSE "ok"

(***************************************************************************)
(* Session._refresh, lines 47-64, as called at line 91, and line 92.       *)
(***************************************************************************)
\* the answer to a login: whether it decodes as JSON, whether that JSON has
\* an 'error' field, and its 'session.id' (None when it has none)
LoginReply(j, e, t) ==
  [isNone |-> FALSE, marker |-> FALSE, deleted |-> {}, json |-> j,
   error |-> e, nodes |-> {}, token |-> t]
\* the server answers a login with a session id or with an error; a body may
\* also fail to decode, or decode to neither
LoginReplies ==
  {LoginReply(TRUE, FALSE, t) : t \in LoginTokens}
  \cup {LoginReply(TRUE, TRUE, None), LoginReply(FALSE, FALSE, None),
        LoginReply(TRUE, FALSE, None)}

LoginMsg(reply, raised) == Msg("login", None, "none", <<>>, reply, raised)

\* lines 59-64: what _refresh raises for a login reply, or "ok"
RefreshRaised(r) ==
  IF ExtractJson(r) # "ok"
    THEN ExtractJson(r)
    ELSE IF r.token = None THEN "keyerror" ELSE "ok"

\* the session id after a login, had line 64 kept an id already held
StoredIdKept(r) == IF Truthy(id) THEN id ELSE r.token
\* line 64: self.id = res['session.id']
StoredId(r) == r.token

\* the login answers with a session id: line 64, then line 92
RefreshOk ==
  /\ pc = "refresh"
  /\ \E r \in LoginReplies :
       /\ RefreshRaised(r) = "ok"
       /\ wire' = Append(wire, LoginMsg(r, FALSE))
       /\ id' = StoredId(r)
  /\ attempts' = attempts - 1
  /\ pc' = "loop"
  /\ UNCHANGED <<op, stage, budget, use_cookies, kw, res, nreq, nref, outcome,
                 disabled, errnames, pvars, ovars, cvars, uvars>>

\* the login request raises, or extract_json raises for its answer, or the
\* answer holds no session id: lines 59-64
RefreshRaises ==
  /\ pc = "refresh"
  /\ \/ wire' = Append(wire, LoginMsg(NoneRes, TRUE))
     \/ \E r \in LoginReplies :
          /\ RefreshRaised(r) # "ok"
          /\ wire' = Append(wire, LoginMsg(r, TRUE))
  /\ outcome' = "login"
  /\ pc' = "end"
  /\ UNCHANGED <<id, op, stage, attempts, budget, use_cookies, kw, res, nreq,
                 nref, disabled, errnames, pvars, ovars, cvars, uvars>>

(***************************************************************************)
(* A direct call of _request (any of the pass-through operations).         *)
(***************************************************************************)
CallRequest ==
  /\ pc = "idle"
  /\ \E n \in 0 .. MaxAttempts, uc \in BOOLEAN : Enter("raw", uc, n)
  /\ op' = [NoOp EXCEPT !.kind = "raw"]
  /\ wire' = <<>>
  /\ outcome' = "none"
  /\ disabled' = <<>>
  /\ errnames' = {}
  /\ UNCHANGED <<id, pvars, ovars, cvars, uvars>>

RequestDone ==
  /\ pc = "ret"
  /\ op.kind = "raw"
  /\ outcome' = "returned"
  /\ pc' = "end"
  /\ UNCHANGED <<id, op, stage, attempts, budget, use_cookies, kw, res, nreq,
                 nref, wire, disabled, errnames, pvars, ovars, cvars, uvars>>

(***************************************************************************)
(* Session.delete_project, lines 172-189.                                  *)
(***************************************************************************)
\* the test of lines 186-187, had it looked for an error field instead
DeleteConfirmedNoError(r, name) == ~r.error
\* lines 186-187: "Project '<name>' was successfully deleted" in res.text
DeleteConfirmed(r, name) == name \in r.deleted

\* lines 178-185
CallDelete ==
  /\ pc = "idle"
  /\ \E name \in ProjectNames : op' = [NoOp EXCEPT !.kind = "delete", !.name = name]
  /\ Enter("delete", TRUE, 1)
  /\ wire' = <<>>
  /\ outcome' = "none"
  /\ disabled' = <<>>
  /\ errnames' = {}
  /\ UNCHANGED <<id, pvars, ovars, cvars, uvars>>

\* lines 186-189
DeleteDone ==
  /\ pc = "ret"
  /\ op.kind = "delete"
  /\ outcome' = IF DeleteConfirmed(res, op.name) THEN "returned" ELSE "remote"
  /\ pc' = "end"
  /\ UNCHANGED <<id, op, stage, attempts, budget, use_cookies, kw, res, nreq,
                 nref, wire, disabled, errnames, pvars, ovars, cvars, uvars>>

(***************************************************************************)
(* Session.run_workflow, lines 191-233, with get_workflow_info, 257-276.   *)
(***************************************************************************)
\* line 203: `not jobs`
WholeFlow(j) == ~j.given \/ j.list = <<>>

\* line 210: set(jobs)
RunNames(j) == Range(j.list)

\* the missing names, had the membership test been left out
MissingNamesNone(run_names, all_names) == {}
\* line 211: run_names - all_names
MissingNames(run_names, all_names) == run_names \ all_names

\* the disabled names, had the requested ones not been taken out
DisabledNamesAll(all_names, run_names) == all_names
\* line 220: all_names - run_names
DisabledNames(all_names, run_names) == all_names \ run_names

\* lines 203-209 and 222-233: with no jobs the flow is submitted at once,
\* otherwise the flow's nodes are fetched first
CallRun ==
  /\ pc = "idle"
  /\ \E j \in JobArgs :
       /\ op' = [NoOp EXCEPT !.kind = "run", !.jobs = j]
       /\ IF WholeFlow(j)
            THEN Enter("executeFlow", FALSE, 1)
            ELSE Enter("info", TRUE, 1)
  /\ wire' = <<>>
  /\ outcome' = "none"
  /\ disabled' = <<>>
  /\ errnames' = {}
  /\ UNCHANGED <<id, pvars, ovars, cvars, uvars>>

\* lines 273-276, then 206-216: the flow is not found, or a requested job
\* is not a node of the flow
RunInfoFails ==
  /\ pc = "ret"
  /\ op.kind = "run"
  /\ stage = "info"
  /\ LET missing_names == MissingNames(RunNames(op.jobs), res.nodes) IN
       \/ /\ ExtractJson(res) = "valueerror"
          /\ outcome' = "notfound"
          /\ errnames' = {}
       \/ /\ ExtractJson(res) = "remote"
          /\ outcome' = "remote"
          /\ errnames' = {}
       \/ /\ ExtractJson(res) = "ok"
          /\ missing_names # {}
          /\ outcome' = "validation"
          /\ errnames' = missing_names
  /\ pc' = "end"
  /\ UNCHANGED <<id, op, stage, attempts, budget, use_cookies, kw, res, nreq,
                 nref, wire, disabled, pvars, ovars, cvars, uvars>>

\* lines 206-221, then 222-233: every requested job is a node; the other
\* nodes are listed, in the set's iteration order, and the flow is submitted
RunSubmit ==
  /\ pc = "ret"
  /\ op.kind = "run"
  /\ stage = "info"
  /\ ExtractJson(res) = "ok"
  /\ MissingNames(RunNames(op.jobs), res.nodes) = {}
  /\ \E d \in Orders(DisabledNames(res.nodes, RunNames(op.jobs))) :
       disabled' = d
  /\ Enter("executeFlow", FALSE, 1)
  /\ UNCHANGED <<id, op, wire, outcome, errnames, pvars, ovars, cvars, uvars>>

\* lines 222-233: extract_json of the executeFlow response
RunDone ==
  /\ pc = "ret"
  /\ op.kind = "run"
  /\ stage = "executeFlow"
  /\ outcome' = IF ExtractJson(res) = "ok" THEN "returned" ELSE ExtractJson(res)
  /\ pc' = "end"
  /\ UNCHANGED <<id, op, stage, attempts, budget, use_cookies, kw, res, nreq,
                 nref, wire, disabled, errnames, pvars, ovars, cvars, uvars>>

\* the caller takes the result and the call's locals are gone; the session
\* object lives on with its id
Finish ==
  /\ pc = "end"
  /\ pc' = "idle"
  /\ op' = NoOp
  /\ stage' = "raw"
  /\ attempts' = 0
  /\ budget' = 0
  /\ use_cookies' = TRUE
  /\ kw' = "<unset>"
  /\ res' = NoneRes
  /\ nreq' = 0
  /\ nref' = 0
  /\ wire' = <<>>
  /\ outcome' = "none"
  /\ disabled' = <<>>
  /\ errnames' = {}
  /\ UNCHANGED <<id, pvars, ovars, cvars, uvars>>

(***************************************************************************)
(* Option dictionaries (src/azkaban.py).  A dictionary is the sequence of  *)
(* its items in the order Python iterates them; a value is a scalar, kept  *)
(* as its text, or a nested dictionary.  A flat mapping is a function from *)
(* keys to texts.                                                          *)
(***************************************************************************)
Leaf(k, v) == [key |-> k, leaf |-> TRUE, val |-> v, sub |-> <<>>]
Nested(k, d) == [key |-> k, leaf |-> FALSE, val |-> "", sub |-> d]
EmptyDict == [k \in {} |-> ""]

\* dict.update, and dict(items): a later item replaces an earlier one
Update(old, new) == new @@ old

\* flatten, lines 41-58, with sep = '.'
RECURSIVE Flatten_(_, _)
Flatten_(dct, prefix) ==
  IF dct = <<>>
    THEN EmptyDict
    ELSE LET n == Len(dct)
             item == dct[n]
             new_prefix ==
               IF prefix # "" THEN prefix \o "." \o item.key ELSE item.key
             items ==
               IF item.leaf
                 THEN new_prefix :> item.val
                 ELSE Flatten_(item.sub, new_prefix)
         IN Update(Flatten_(SubSeq(dct, 1, n - 1), prefix), items)

Flatten(dct) == Flatten_(dct, "")

\* the list as it is, had line 246 iterated it forwards
NotReversed(s) == s
\* reversed(self._options), line 246
Reversed(s) == [i \in 1 .. Len(s) |-> s[Len(s) + 1 - i]]

\* Job.options, lines 242-248
RECURSIVE OptionsLoop(_, _)
OptionsLoop(rest, options) ==
  IF rest = <<>>
    THEN options
    ELSE OptionsLoop(Tail(rest), Update(options, Flatten(Head(rest))))

Options(_options) == OptionsLoop(Reversed(_options), EmptyDict)

\* The keys of the model in the order Python compares them as strings.
KeyOrder == <<"a", "a.b", "b", "pig.script", "type">>

\* the keys in another order, had line 258 not sorted them
SortedUnsorted(keys) ==
  SelectSeq([i \in DOMAIN KeyOrder |-> KeyOrder[Len(KeyOrder) + 1 - i]],
            LAMBDA k : k \in keys)
\* sorted(...), line 258: the keys of a flat mapping in ascending order
Sorted(keys) == SelectSeq(KeyOrder, LAMBDA k : k \in keys)

\* Job.generate, lines 250-259: the lines written, each '%s=%s\n'
Generate(_options) ==
  LET options == Options(_options)
      keys == Sorted(DOMAIN options)
  IN [i \in 1 .. Len(keys) |-> keys[i] \o "=" \o options[keys[i]]]

(***************************************************************************)
(* Paths, jobs and archive members (src/azkaban.py).                       *)
(***************************************************************************)
\* a path: whether it starts at the root, and the rest of it
Path(a, r) == [abs |-> a, rel |-> r]
PathStr(p) == IF p.abs THEN "/" \o p.rel ELSE p.rel
\* os.path.isabs, line 110
IsAbs(p) == p.abs
AbsPaths == {Path(TRUE, "x.pig"), Path(TRUE, "data.txt")}
Paths == AbsPaths \cup {Path(FALSE, "x.pig")}
ArchivePaths == {None, "foo.job", "lib/x.pig"}
JobNames == {"foo", "bar"}

\* Job.__init__, lines 239-240
MkJob(options) == [cls |-> "Job", path |-> Path(FALSE, ""), options |-> options]
\* PigJob.__init__, lines 296-303
MkPigJob(path, options) ==
  [cls |-> "PigJob", path |-> path,
   options |->
     <<<<Leaf("type", "pig"), Leaf("pig.script", PathStr(path))>>>>
     \o options]

\* a Job subclass of the caller's that overrides on_build
MkHookJob(options) ==
  [cls |-> "HookJob", path |-> Path(FALSE, ""), options |-> options]

\* the job objects a caller registers
JobPool ==
  { MkJob(<< <<Leaf("type", "cmd"), Nested("a", <<Leaf("b", "1")>>)>>,
             <<Leaf("a.b", "2"), Leaf("b", "3")>> >>),
    MkHookJob(<< <<Leaf("type", "cmd")>> >>),
    MkPigJob(Path(TRUE, "x.pig"), <<>>),
    MkPigJob(Path(FALSE, "x.pig"), << <<Leaf("type", "custom")>> >>) }

\* an archive member
Member(name, content) == [name |-> name, content |-> content]
\* the bytes of a file on disk, known by where the file is
FileBytes(p) == <<"<" \o PathStr(p) \o ">">>
\* ZipFile.write(fpath, apath), lines 154-156: without an archive path the
\* member is named after the file, less the leading separator
ArcName(fpath, apath) == IF apath = None THEN fpath.rel ELSE apath

NoCall == [fn |-> "none", name |-> "", job |-> MkJob(<<>>),
           path |-> Path(FALSE, ""), archive_path |-> None]

(***************************************************************************)
(* Project.add_file, lines 100-118.                                        *)
(***************************************************************************)
\* what add_file raises, had line 116 not looked at the disk
AddFileRaisesUnchecked(path, archive_path) ==
  IF ~IsAbs(path)
    THEN "relative"
    ELSE IF path \in DOMAIN files /\ files[path] # archive_path
           THEN "inconsistent"
           ELSE "ok"

\* what add_file raises, had line 110 not looked at the path
AddFileRaisesAnyPath(path, archive_path) ==
  IF path \in DOMAIN files
    THEN IF files[path] # archive_path THEN "inconsistent" ELSE "ok"
    ELSE IF path \notin disk /\ IsAbs(path) THEN "missing" ELSE "ok"

\* what add_file raises, or "ok"
AddFileRaises(path, archive_path) ==
  IF ~IsAbs(path)
    THEN "relative"
    ELSE IF path \in DOMAIN files
           THEN IF files[path] # archive_path THEN "inconsistent" ELSE "ok"
           ELSE IF path \notin disk THEN "missing" ELSE "ok"

\* self._files after add_file, had line 118 been reached for any path
AddFileFilesOverwrite(path, archive_path) ==
  IF IsAbs(path) /\ path \in disk
    THEN (path :> archive_path) @@ files
    ELSE files

\* self._files after add_file: line 118 is reached for a new path only
AddFileFiles(path, archive_path) ==
  IF AddFileRaises(path, archive_path) = "ok" /\ path \notin DOMAIN files
    THEN (path :> archive_path) @@ files
    ELSE files

AddFile ==
  /\ bpc = "idle"
  /\ \E path \in Paths, archive_path \in ArchivePaths :
       /\ pcall' = [NoCall EXCEPT !.fn = "add_file", !.path = path,
                                  !.archive_path = archive_path]
       /\ perr' = AddFileRaises(path, archive_path)
       /\ files' = AddFileFiles(path, archive_path)
  /\ havePrev' = (havePrev /\ files' = files)
  /\ prev' = IF havePrev' THEN prev ELSE {}
  /\ UNCHANGED <<jobs, disk, hooked, built, bpc, cur, todoJ, todoF, temp, writer,
                 archive, bexc, svars, ovars, cvars, uvars>>

(***************************************************************************)
(* Project.add_job, lines 120-135, with Job.on_add and PigJob.on_add.      *)
(***************************************************************************)
\* self._jobs after add_job, had line 134 not been guarded by line 131
AddJobJobsOverwrite(name, job) == (name :> job) @@ jobs
\* self._jobs after add_job, lines 131-134
AddJobJobs(name, job) ==
  IF name \in DOMAIN jobs THEN jobs ELSE (name :> job) @@ jobs

\* on_add is invoked, line 135, when the name was free
AddJobHooked(name, job) ==
  IF name \in DOMAIN jobs THEN hooked ELSE Append(hooked, <<name, job>>)

AddJob ==
  /\ bpc = "idle"
  /\ \E name \in JobNames, job \in JobPool :
       /\ pcall' = [NoCall EXCEPT !.fn = "add_job", !.name = name, !.job = job]
       /\ jobs' = AddJobJobs(name, job)
       /\ hooked' = AddJobHooked(name, job)
       /\ IF name \in DOMAIN jobs
            THEN /\ perr' = "duplicate"
                 /\ UNCHANGED files
            ELSE IF job.cls = "PigJob"
                   \* PigJob.on_add, lines 305-307: project.add_file(self.path)
                   THEN /\ perr' = AddFileRaises(job.path, None)
                        /\ files' = AddFileFiles(job.path, None)
                   \* Job.on_add, lines 261-268
                   ELSE /\ perr' = "ok"
                        /\ UNCHANGED files
  /\ havePrev' = (havePrev /\ files' = files /\ jobs' = jobs)
  /\ prev' = IF havePrev' THEN prev ELSE {}
  /\ UNCHANGED <<disk, built, bpc, cur, todoJ, todoF, temp, writer, archive,
                 bexc, svars, ovars, cvars, uvars>>

(***************************************************************************)
(* The file system around the project: files come and go, between calls    *)
(* and while build runs.  Only the second loop of build reads the disk, so *)
(* a change during the first loop is taken at the top of the loops.        *)
(***************************************************************************)
CreateFile ==
  /\ bpc \in {"idle", "jobs"}
  /\ \E p \in AbsPaths \ disk : disk' = disk \cup {p}
  /\ pcall' = NoCall
  /\ perr' = "ok"
  /\ UNCHANGED <<files, jobs, hooked, built, bpc, cur, todoJ, todoF,
                 temp, writer, archive, bexc, prev, havePrev, svars, ovars,
                 cvars, uvars>>

RemoveFile ==
  /\ bpc \in {"idle", "jobs"}
  /\ \E p \in disk : disk' = disk \ {p}
  /\ pcall' = NoCall
  /\ perr' = "ok"
  /\ UNCHANGED <<files, jobs, hooked, built, bpc, cur, todoJ, todoF,
                 temp, writer, archive, bexc, prev, havePrev, svars, ovars,
                 cvars, uvars>>

(***************************************************************************)
(* Project.build, lines 137-158, with temppath, lines 60-79.               *)
(***************************************************************************)
\* line 148: the archive is opened for writing
BuildStart ==
  /\ bpc = "idle"
  /\ bpc' = "jobs"
  /\ writer' = "open"
  /\ archive' = <<>>
  /\ todoJ' = DOMAIN jobs
  /\ todoF' = DOMAIN files
  /\ bexc' = FALSE
  /\ built' = <<>>
  /\ pcall' = NoCall
  /\ perr' = "ok"
  /\ UNCHANGED <<files, jobs, disk, hooked, cur, temp, prev, havePrev, svars,
                 ovars, cvars, uvars>>

\* the dictionary the overriding on_build puts in front of the options
HookDict == <<Leaf("type", "built")>>

\* on_build, lines 270-277: nothing for Job and PigJob; the override of the
\* subclass sets the job's options, a last-moment change
OnBuild(job) ==
  IF job.cls = "HookJob" /\ (job.options = <<>> \/ Head(job.options) # HookDict)
    THEN [job EXCEPT !.options = <<HookDict>> \o job.options]
    ELSE job

\* lines 150-152: the next job of the loop, its on_build, and the temporary
\* path, which names no file
BuildHook ==
  /\ bpc = "jobs"
  /\ \E name \in todoJ :
       /\ cur' = name
       /\ built' = Append(built, name)
       /\ jobs' = [jobs EXCEPT ![name] = OnBuild(jobs[name])]
  /\ bpc' = "temp"
  /\ UNCHANGED <<files, disk, pcall, perr, hooked, todoJ,
                 todoF, temp, writer, archive, bexc, prev, havePrev, svars,
                 ovars, cvars, uvars>>

\* line 151: the overriding on_build raises, before any temporary path
BuildHookFails ==
  /\ bpc = "jobs"
  /\ \E name \in todoJ :
       /\ jobs[name].cls = "HookJob"
       /\ cur' = name
       /\ built' = Append(built, name)
  /\ bexc' = TRUE
  /\ bpc' = "close"
  /\ UNCHANGED <<files, jobs, disk, pcall, perr, hooked, todoJ,
                 todoF, temp, writer, archive, prev, havePrev, svars, ovars,
                 cvars, uvars>>

\* line 153: generate writes the job file at the temporary path
BuildGenerate ==
  /\ bpc = "temp"
  /\ temp' = temp \cup {Member(cur, Generate(jobs[cur].options))}
  /\ bpc' = "write"
  /\ UNCHANGED <<files, jobs, disk, pcall, perr, hooked, built, cur, todoJ,
                 todoF, writer, archive, bexc, prev, havePrev, svars, ovars,
                 cvars, uvars>>

\* line 153: generate raises, before or after it created the file
BuildGenerateFails ==
  /\ bpc = "temp"
  /\ \E created \in BOOLEAN :
       temp' = IF created THEN temp \cup {Member(cur, <<>>)} ELSE temp
  /\ bexc' = TRUE
  /\ bpc' = "cleanup"
  /\ UNCHANGED <<files, jobs, disk, pcall, perr, hooked, built, cur, todoJ,
                 todoF, writer, archive, prev, havePrev, svars, ovars,
                 cvars, uvars>>

\* the member name of a job, line 154: '%s.job' % (name, )
JobMember(name) == name \o ".job"

\* line 154: the job file goes into the archive
BuildWrite ==
  /\ bpc = "write"
  /\ \E t \in temp :
       archive' = Append(archive, Member(JobMember(cur), t.content))
  /\ bpc' = "cleanup"
  /\ UNCHANGED <<files, jobs, disk, pcall, perr, hooked, built, cur, todoJ,
                 todoF, temp, writer, bexc, prev, havePrev, svars, ovars,
                 cvars, uvars>>

\* line 154: writing to the archive raises
BuildWriteFails ==
  /\ bpc = "write"
  /\ bexc' = TRUE
  /\ bpc' = "cleanup"
  /\ UNCHANGED <<files, jobs, disk, pcall, perr, hooked, built, cur, todoJ,
                 todoF, temp, writer, archive, prev, havePrev, svars, ovars,
                 cvars, uvars>>

\* leaving the with block, had temppath removed the file without a finally
BuildCleanupNoFinally ==
  /\ bpc = "cleanup"
  /\ temp' = IF bexc THEN temp ELSE {}
  /\ todoJ' = todoJ \ {cur}
  /\ bpc' = IF bexc THEN "close" ELSE "jobs"
  /\ UNCHANGED <<files, jobs, disk, pcall, perr, hooked, built, cur, todoF,
                 writer, archive, bexc, prev, havePrev, svars, ovars,
                 cvars, uvars>>

\* lines 77-79: leaving the with block removes the temporary file
BuildCleanup ==
  /\ bpc = "cleanup"
  /\ temp' = {}
  /\ todoJ' = todoJ \ {cur}
  /\ bpc' = IF bexc THEN "close" ELSE "jobs"
  /\ UNCHANGED <<files, jobs, disk, pcall, perr, hooked, built, cur, todoF,
                 writer, archive, bexc, prev, havePrev, svars, ovars,
                 cvars, uvars>>

\* the files the second loop writes, line 155
FilesToWrite == DOMAIN files

\* the next file goes into the archive, had the two loops been one
BuildFileEarly ==
  /\ bpc = "jobs"
  /\ \E fpath \in todoF \cap FilesToWrite :
       /\ fpath \in disk
       /\ archive' =
            Append(archive,
                   Member(ArcName(fpath, files[fpath]), FileBytes(fpath)))
       /\ todoF' = todoF \ {fpath}
  /\ UNCHANGED <<files, jobs, disk, pcall, perr, hooked, built, bpc, cur,
                 todoJ, temp, writer, bexc, prev, havePrev, svars, ovars,
                 cvars, uvars>>

\* lines 155-156: the next file of the loop goes into the archive
BuildFile ==
  /\ bpc = "jobs"
  /\ todoJ = {}
  /\ \E fpath \in todoF \cap FilesToWrite :
       /\ fpath \in disk
       /\ archive' =
            Append(archive, Member(ArcName(fpath, files[fpath]), FileBytes(fpath)))
       /\ todoF' = todoF \ {fpath}
  /\ UNCHANGED <<files, jobs, disk, pcall, perr, hooked, built, bpc, cur,
                 todoJ, temp, writer, bexc, prev, havePrev, svars, ovars,
                 cvars, uvars>>

\* lines 155-156: the file is gone, or writing to the archive raises
BuildFileFails ==
  /\ bpc = "jobs"
  /\ todoJ = {}
  /\ todoF \cap FilesToWrite # {}
  /\ bexc' = TRUE
  /\ bpc' = "close"
  /\ UNCHANGED <<files, jobs, disk, pcall, perr, hooked, built, cur, todoJ,
                 todoF, temp, writer, archive, prev, havePrev, svars, ovars,
                 cvars, uvars>>

\* lines 157-158: the archive is closed, after the loops or on the way out
BuildClose ==
  /\ \/ bpc = "jobs" /\ todoJ = {} /\ todoF \cap FilesToWrite = {}
     \/ bpc = "close"
  /\ writer' = "closed"
  /\ bpc' = IF bexc THEN "failed" ELSE "done"
  /\ UNCHANGED <<files, jobs, disk, pcall, perr, hooked, built, cur, todoJ,
                 todoF, temp, archive, bexc, prev, havePrev, svars, ovars,
                 cvars, uvars>>

\* build returns or raises; a finished archive is what the next one is
\* compared with
BuildReturn ==
  /\ bpc \in {"done", "failed"}
  /\ bpc' = "idle"
  /\ IF bpc = "done"
       THEN prev' = {archive[i] : i \in DOMAIN archive} /\ havePrev' = TRUE
       ELSE UNCHANGED <<prev, havePrev>>
  /\ archive' = <<>>
  /\ writer' = "none"
  /\ cur' = ""
  /\ todoJ' = {}
  /\ todoF' = {}
  /\ bexc' = FALSE
  /\ built' = <<>>
  /\ UNCHANGED <<files, jobs, disk, pcall, perr, hooked, temp, svars,
                 ovars, cvars, uvars>>

(***************************************************************************)
(* A job on its own: its options are read and its file generated.          *)
(***************************************************************************)
\* the items a dictionary of the model can hold
Scalars == {"1", "2"}
SubDicts == {<<>>} \cup {<<Leaf("b", v)>> : v \in Scalars}
Items ==
  {Leaf("a.b", v) : v \in Scalars}
  \cup {Leaf("b", "3")}
  \cup {Nested("a", d) : d \in SubDicts}
\* a dictionary has each key once
Dicts ==
  UNION {{d \in [1 .. n -> Items] :
            \A i, j \in 1 .. n : d[i].key = d[j].key => i = j} :
         n \in 0 .. MaxItems}
OptionLists == UNION {[1 .. n -> Dicts] : n \in 0 .. MaxDicts}

\* reading job.options
ReadOptions ==
  /\ combined' = Options(job_options)
  /\ UNCHANGED <<job_options, text, svars, pvars, cvars, uvars>>

\* job.generate(path)
WriteJobFile ==
  /\ text' = Generate(job_options)
  /\ UNCHANGED <<job_options, combined, svars, pvars, cvars, uvars>>

(***************************************************************************)
(* Two calls of _request running at once on one Session, with nothing to   *)
(* keep them apart: the interpreter may switch from one to the other       *)
(* between any two statements, so the writing of the session id into       *)
(* kwargs (lines 82-85), the request (line 86), the test (lines 87-90) and *)
(* the login (line 91) of one call interleave with those of the other.     *)
(***************************************************************************)
Dispatches == {1, 2}

\* the locals of a call that has not begun; `overtaken`: the other call
\* logged in since this one wrote kwargs; `stale`: a request of this call
\* carried an id that was no longer the session's; `overwrote`: a login of
\* this call replaced an id stored by a login of the other
IdleCall ==
  [pc |-> "idle", attempts |-> 0, budget |-> 0, kw |-> "<unset>",
   res |-> NoneRes, nref |-> 0, outcome |-> "none",
   overtaken |-> FALSE, stale |-> FALSE, overwrote |-> FALSE]

Other(d) == CHOOSE e \in Dispatches : e # d

\* lines 66-80
RaceEnter(d) ==
  /\ calls[d].pc = "idle"
  /\ \E n \in 0 .. MaxAttempts :
       calls' = [calls EXCEPT ![d].pc = "attach", ![d].attempts = n,
                              ![d].budget = n]
  /\ UNCHANGED <<owner, svars, pvars, ovars, uvars>>

\* lines 82-85
RaceAttach(d) ==
  /\ calls[d].pc = "attach"
  /\ calls' = [calls EXCEPT ![d].pc = "send",
                            ![d].kw = AttachedId(id, calls[d].kw),
                            ![d].overtaken = FALSE]
  /\ UNCHANGED <<owner, svars, pvars, ovars, uvars>>

\* line 86: with a session id the request goes out with kwargs as they are
RaceSend(d) ==
  /\ calls[d].pc = "send"
  /\ IF Truthy(id)
       THEN \E r \in Responses("raw") :
              calls' = [calls EXCEPT ![d].pc = "check", ![d].res = r,
                                     ![d].stale = @ \/ calls[d].kw # id]
       ELSE calls' = [calls EXCEPT ![d].pc = "check", ![d].res = NoneRes]
  /\ UNCHANGED <<owner, svars, pvars, ovars, uvars>>

\* line 86: azkaban_request raises
RaceSendRaises(d) ==
  /\ calls[d].pc = "send"
  /\ Truthy(id)
  /\ calls' = [calls EXCEPT ![d].pc = "done", ![d].outcome = "transport",
                            ![d].stale = @ \/ calls[d].kw # id]
  /\ UNCHANGED <<owner, svars, pvars, ovars, uvars>>

\* lines 87-99
RaceCheck(d) ==
  /\ calls[d].pc = "check"
  /\ calls' =
       IF ~AuthFailed(calls[d].res)
         THEN [calls EXCEPT ![d].pc = "done", ![d].outcome = "returned"]
         ELSE IF CanRefresh(calls[d].attempts)
                THEN [calls EXCEPT ![d].pc = "refresh", ![d].nref = @ + 1]
                ELSE [calls EXCEPT ![d].pc = "done",
                                   ![d].outcome = "exhausted"]
  /\ UNCHANGED <<owner, svars, pvars, ovars, uvars>>

\* lines 91-92: the login stores a session id
RaceRefresh(d) ==
  /\ calls[d].pc = "refresh"
  /\ \E r \in LoginReplies :
       /\ RefreshRaised(r) = "ok"
       /\ id' = StoredId(r)
  /\ owner' = d
  /\ calls' =
       [calls EXCEPT ![d].pc = "attach",
                     ![d].attempts = @ - 1,
                     ![d].overwrote = @ \/ owner = Other(d),
                     ![Other(d)].overtaken =
                        @ \/ calls[Other(d)].pc = "send"]
  /\ UNCHANGED <<pc, op, stage, attempts, budget, use_cookies, kw, res, nreq,
                 nref, wire, outcome, disabled, errnames, pvars, ovars,
                 uvars>>

\* line 91: the login raises
RaceRefreshRaises(d) ==
  /\ calls[d].pc = "refresh"
  /\ calls' = [calls EXCEPT ![d].pc = "done", ![d].outcome = "login"]
  /\ UNCHANGED <<owner, svars, pvars, ovars, uvars>>

(***************************************************************************)
(* Project.upload, lines 160-194.                                          *)
(***************************************************************************)
\* the error texts the server puts in an 'error' field
ErrorTexts == {"e1", "e2"}

\* a decoded JSON body: its 'error' and its 'session.id' (None when absent)
Json(e, t) == [bound |-> TRUE, error |-> e, token |-> t]
\* a local that was never assigned
Unbound == [bound |-> FALSE, error |-> None, token |-> None]

\* what the server may answer to the login and to the upload
LoginBodies ==
  {Json(e, None) : e \in ErrorTexts} \cup {Json(None, t) : t \in LoginTokens}
  \cup {Json(None, None)}
UploadBodies == {Json(e, None) : e \in ErrorTexts \cup {None}}

\* an exception: its class and its argument
Raised(type, arg) == [type |-> type, arg |-> arg]
NotRaised == Raised("none", "")

\* line 194: raise AzkabanError(res['error']), `res` being the local the
\* login branch assigns (line 178) and no other statement does
UploadErrorRaised(r) ==
  IF ~r.bound
    THEN Raised("UnboundLocalError", "res")
    ELSE IF r.error = None
           THEN Raised("KeyError", "error")
           ELSE Raised("AzkabanError", r.error)

\* lines 168-169: the temporary path is taken; build is entered next
UploadCall ==
  /\ upc = "idle"
  /\ bpc = "idle"
  /\ \E sid \in InitialIds : session_id' = sid
  /\ upc' = "build"
  /\ login_res' = Unbound
  /\ upload_res' = Unbound
  /\ uraised' = NotRaised
  /\ tmparchive' = FALSE
  /\ UNCHANGED <<svars, pvars, ovars, cvars>>

\* line 170: build has returned or raised, leaving what it wrote at the
\* temporary path
UploadBuilt ==
  /\ upc = "build"
  /\ bpc \in {"done", "failed"}
  /\ tmparchive' = TRUE
  /\ IF bpc = "failed"
       THEN /\ uraised' = Raised("BuildError", "")
            /\ upc' = "exit"
       ELSE /\ uraised' = uraised
            /\ upc' = IF Truthy(session_id) THEN "post" ELSE "login"
  /\ UNCHANGED <<session_id, login_res, upload_res, svars, pvars, ovars,
                 cvars>>

\* lines 171-182: without a session id upload logs in itself
UploadLogin ==
  /\ upc = "login"
  /\ bpc = "idle"
  /\ \/ /\ uraised' = Raised("TransportError", "")
        /\ upc' = "exit"
        /\ UNCHANGED <<session_id, login_res>>
     \/ /\ uraised' = Raised("ValueError", "")
        /\ upc' = "exit"
        /\ UNCHANGED <<session_id, login_res>>
     \/ \E r \in LoginBodies :
          /\ login_res' = r
          /\ IF r.error # None
               THEN /\ uraised' = Raised("AzkabanError", r.error)
                    /\ upc' = "exit"
                    /\ UNCHANGED session_id
               ELSE IF r.token = None
                      THEN /\ uraised' = Raised("KeyError", "session.id")
                           /\ upc' = "exit"
                           /\ UNCHANGED session_id
                      ELSE /\ session_id' = r.token
                           /\ upc' = "post"
                           /\ UNCHANGED uraised
  /\ UNCHANGED <<upload_res, tmparchive, svars, pvars, ovars, cvars>>

\* lines 183-194: the upload request and the test of its answer
UploadPost ==
  /\ upc = "post"
  /\ bpc = "idle"
  /\ \/ /\ uraised' = Raised("TransportError", "")
        /\ UNCHANGED upload_res
     \/ /\ uraised' = Raised("ValueError", "")
        /\ UNCHANGED upload_res
     \/ \E body \in UploadBodies :
          /\ upload_res' = body
          /\ uraised' = IF body.error # None
                          THEN UploadErrorRaised(login_res)
                          ELSE NotRaised
  /\ upc' = "exit"
  /\ UNCHANGED <<session_id, login_res, tmparchive, svars, pvars, ovars,
                 cvars>>

\* lines 75-79: leaving the with block removes what is at the temporary path
UploadExit ==
  /\ upc = "exit"
  /\ bpc = "idle"
  /\ tmparchive' = FALSE
  /\ upc' = "end"
  /\ UNCHANGED <<session_id, login_res, upload_res, uraised, svars, pvars,
                 ovars, cvars>>

\* the caller has the result; the locals of the call are gone
UploadReturn ==
  /\ upc = "end"
  /\ upc' = "idle"
  /\ session_id' = None
  /\ login_res' = Unbound
  /\ upload_res' = Unbound
  /\ uraised' = NotRaised
  /\ UNCHANGED <<tmparchive, svars, pvars, ovars, cvars>>

(***************************************************************************)
(* The specifications.                                                     *)
(***************************************************************************)
SessionStart ==
  /\ pc = "idle"
  /\ op = NoOp
  /\ stage = "raw"
  /\ attempts = 0
  /\ budget = 0
  /\ use_cookies = TRUE
  /\ kw = "<unset>"
  /\ res = NoneRes
  /\ nreq = 0
  /\ nref = 0
  /\ wire = <<>>
  /\ outcome = "none"
  /\ disabled = <<>>
  /\ errnames = {}

\* Project.__init__, lines 95-98
ProjectStart ==
  /\ files = EmptyDict
  /\ jobs = EmptyDict
  /\ pcall = NoCall
  /\ perr = "ok"
  /\ hooked = <<>>
  /\ built = <<>>
  /\ bpc = "idle"
  /\ cur = ""
  /\ todoJ = {}
  /\ todoF = {}
  /\ temp = {}
  /\ writer = "none"
  /\ archive = <<>>
  /\ bexc = FALSE
  /\ prev = {}
  /\ havePrev = FALSE

\* no concurrent calls, no upload
NoRace ==
  /\ calls = [d \in Dispatches |-> IdleCall]
  /\ owner = 0

NoUpload ==
  /\ upc = "idle"
  /\ session_id = None
  /\ login_res = Unbound
  /\ upload_res = Unbound
  /\ uraised = NotRaised
  /\ tmparchive = FALSE

\* nothing read from the job, nothing written for it
Unread == [k \in {"<unread>"} |-> ""]
Unwritten == <<"<unwritten>">>

JobStart(lists) ==
  /\ job_options \in lists
  /\ combined = Unread
  /\ text = Unwritten

\* Session.__init__, lines 31-45, beside an empty project
Init ==
  /\ id \in InitialIds
  /\ SessionStart
  /\ ProjectStart
  /\ disk = {}
  /\ JobStart({<<>>})
  /\ NoRace
  /\ NoUpload

Next ==
  \/ CallRequest
  \/ CallDelete
  \/ CallRun
  \/ SendRequest
  \/ SendRaises
  \/ SendSkipped
  \/ CheckRefresh
  \/ CheckExhausted
  \/ CheckReturn
  \/ RefreshOk
  \/ RefreshRaises
  \/ RequestDone
  \/ DeleteDone
  \/ RunInfoFails
  \/ RunSubmit
  \/ RunDone
  \/ Finish

Spec == Init /\ [][Next]_vars

\* the steps of _request and of the _refresh it calls
RequestStep ==
  \/ SendRequest
  \/ SendRaises
  \/ SendSkipped
  \/ CheckRefresh
  \/ CheckExhausted
  \/ CheckReturn
  \/ RefreshOk
  \/ RefreshRaises

\* the same program, where every request and every login is answered or
\* raises, and the interpreter goes on to the next statement of _request
FairSpec == Spec /\ WF_vars(RequestStep)

\* two calls of _request on one session
RaceNext ==
  \E d \in Dispatches :
    \/ RaceEnter(d)
    \/ RaceAttach(d)
    \/ RaceSend(d)
    \/ RaceSendRaises(d)
    \/ RaceCheck(d)
    \/ RaceRefresh(d)
    \/ RaceRefreshRaises(d)

RaceSpec == Init /\ [][RaceNext]_vars

\* a project on a disk holding any of the files, with no session in use
ProjectInit ==
  /\ id = None
  /\ SessionStart
  /\ ProjectStart
  /\ disk \in SUBSET AbsPaths
  /\ JobStart({<<>>})
  /\ NoRace
  /\ NoUpload

ProjectNext ==
  \/ AddFile
  \/ AddJob
  \/ CreateFile
  \/ RemoveFile
  \/ BuildStart
  \/ BuildHook
  \/ BuildHookFails
  \/ BuildGenerate
  \/ BuildGenerateFails
  \/ BuildWrite
  \/ BuildWriteFails
  \/ BuildCleanup
  \/ BuildFile
  \/ BuildFileFails
  \/ BuildClose
  \/ BuildReturn

ProjectSpec == ProjectInit /\ [][ProjectNext]_vars

\* a project whose files are on disk, registered with and uploaded through
\* Project.upload, which builds it first
UploadInit ==
  /\ id = None
  /\ SessionStart
  /\ ProjectStart
  /\ disk = AbsPaths
  /\ JobStart({<<>>})
  /\ NoRace
  /\ NoUpload

UploadNext ==
  \/ upc = "idle" /\ AddFile
  \/ upc = "idle" /\ AddJob
  \/ UploadCall
  \/ upc = "build" /\ BuildStart
  \/ BuildHook
  \/ BuildHookFails
  \/ BuildGenerate
  \/ BuildGenerateFails
  \/ BuildWrite
  \/ BuildWriteFails
  \/ BuildCleanup
  \/ BuildFile
  \/ BuildFileFails
  \/ BuildClose
  \/ UploadBuilt
  \/ upc # "build" /\ BuildReturn
  \/ UploadLogin
  \/ UploadPost
  \/ UploadExit
  \/ UploadReturn

UploadSpec == UploadInit /\ [][UploadNext]_vars

\* a job constructed from any list of option dictionaries
OptionsInit ==
  /\ id = None
  /\ SessionStart
  /\ ProjectStart
  /\ disk = {}
  /\ JobStart(OptionLists)
  /\ NoRace
  /\ NoUpload

OptionsNext ==
  \/ ReadOptions
  \/ WriteJobFile

OptionsSpec == OptionsInit /\ [][OptionsNext]_vars

(***************************************************************************)
(* Properties of the dispatcher.                                           *)
(***************************************************************************)
Last(s) == s[Len(s)]

C1_Counts == nref <= budget /\ nreq <= budget + 1

C1_Immediate ==
  (pc = "end" /\ budget = 0 /\ ~Truthy(id)) =>
    (outcome = "exhausted" /\ nref = 0 /\ nreq = 0 /\ wire = <<>>)

C1_Step ==
  (pc = "check" /\ (res.isNone \/ res.marker) /\ attempts = 0) =>
    (pc' = "end" /\ outcome' = "exhausted" /\ nref' = nref /\ wire' = wire)

\* C1: one call of _request performs at most N refreshes and sends at most
\* N+1 requests, N being its refresh budget; an authentication failure
\* detected with no attempt left ends the call with the session-exhausted
\* error and no further refresh; with N = 0 and an absent token the call
\* fails at once, with no refresh and no request sent.
C1_BoundedRefresh == [](C1_Counts /\ C1_Immediate) /\ [][C1_Step]_vars

\* a call with the largest budget that used all of it and then gave up
C1_Witness ==
  /\ pc = "end"
  /\ outcome = "exhausted"
  /\ budget = MaxAttempts
  /\ nref = budget
  /\ nreq = budget + 1

\* a call with no budget and no token that gave up at once
C1_WitnessImmediate ==
  pc = "end" /\ budget = 0 /\ ~Truthy(id) /\ outcome = "exhausted"

\* C2: with a refresh budget of 1, a dispatch whose first pass fails
\* authentication (absent token, or a response holding the marker), whose
\* refresh succeeds and whose next request is accepted has made exactly one
\* login followed by exactly one retry of the same request carrying the
\* session id the login stored, and returns that retry's response.
C2_OneRefreshOneRetry ==
  (pc = "ret" /\ budget = 1 /\ nref = 1) =>
    LET n == Len(wire) IN
      /\ n >= 2
      /\ wire[n - 1].action = "login"
      /\ ~wire[n - 1].raised
      /\ wire[n].action = stage
      /\ wire[n].tok = id
      /\ Truthy(wire[n].tok)
      /\ wire[n].reply = res
      /\ ~res.isNone /\ ~res.marker
      /\ nreq \in {1, 2}
      /\ attempts = 0
      /\ nreq = 1 => (n = 2 \/ wire[n - 2].action # stage)
      /\ nreq = 2 =>
            /\ n >= 3
            /\ wire[n - 2].action = stage
            /\ wire[n - 2].reply.marker
            /\ wire[n - 2].place = wire[n].place

\* a dispatch whose token the server rejected, and whose retry carried a
\* different, refreshed token
C2_Witness ==
  /\ pc = "ret" /\ budget = 1 /\ nref = 1 /\ nreq = 2
  /\ Len(wire) = 3
  /\ wire[1].tok # wire[3].tok

C3_Raised(i) ==
  /\ i = Len(wire)
  /\ pc \in {"end", "idle"}
  /\ outcome = IF wire[i].action = "login" THEN "login" ELSE "transport"

C3_State == \A i \in DOMAIN wire : wire[i].raised => C3_Raised(i)

C3_Step ==
  (Len(wire') = Len(wire) + 1 /\ Last(wire').raised) =>
    /\ id' = id
    /\ attempts' = attempts
    /\ nref' = nref
    /\ pc' = "end"

\* C3: a failure that is not an authentication failure (the transport
\* failing on a request, or the login failing inside refresh) ends the call
\* at its first occurrence: the failing message is the last one sent, no
\* refresh is begun because of it, the attempt budget is not decremented and
\* the session id keeps the value it had before the failure.
C3_FailFast == []C3_State /\ [][C3_Step]_vars

\* a transport failure on the retry that followed a successful refresh
C3_Witness ==
  /\ pc = "end" /\ outcome = "transport"
  /\ nref = 1 /\ nreq = 2 /\ attempts = budget - 1
  /\ Last(wire).raised

\* a login that failed inside refresh
C3_WitnessLogin ==
  pc = "end" /\ outcome = "login" /\ Last(wire).raised /\ attempts = budget

(***************************************************************************)
(* Properties of the workflow operations.                                  *)
(***************************************************************************)
\* the messages of the running operation that carry the given action
Sent(action) == {i \in DOMAIN wire : wire[i].action = action}

\* the flow-info answers _request handed back to get_workflow_info
InfoAccepted ==
  {i \in Sent("info") :
     ~wire[i].raised /\ ~wire[i].reply.marker
     /\ wire[i].reply.json /\ ~wire[i].reply.error}

\* the job set R of the running run_workflow call
Requested == {op.jobs.list[k] : k \in DOMAIN op.jobs.list}

C4_Submitted(i) ==
  LET dis == wire[i].disabled
      D == {dis[k] : k \in DOMAIN dis}
  IN IF Requested = {}
       THEN dis = <<>> /\ Sent("info") = {}
       ELSE /\ Cardinality(InfoAccepted) = 1
            /\ \A j \in InfoAccepted :
                 LET A == wire[j].reply.nodes IN
                   /\ j < i
                   /\ Requested \subseteq A
                   /\ D = A \ Requested
                   /\ D \cap Requested = {}
                   /\ D \cup Requested = A
                   /\ Len(dis) = Cardinality(D)

\* C4: the disabled list of every executeFlow request run_workflow submits
\* is empty when the requested job set R is empty or omitted, and then no
\* flow-info query was made; otherwise R is a subset of the flow's node set
\* A and the list holds exactly the nodes of A outside R, each once.
C4_DisabledIsComplement ==
  op.kind = "run" => \A i \in Sent("executeFlow") : C4_Submitted(i)

\* jobs a and b of a flow with nodes a, b, c: c alone is disabled
C4_Witness ==
  /\ op.kind = "run"
  /\ Requested = {1, 2}
  /\ \E i \in Sent("executeFlow") : wire[i].disabled = <<3>>
  /\ \E j \in InfoAccepted : wire[j].reply.nodes = {1, 2, 3}

\* an empty job list: the whole flow is submitted without a flow-info query
C4_WitnessWhole ==
  /\ op.kind = "run" /\ op.jobs.given /\ op.jobs.list = <<>>
  /\ Sent("executeFlow") # {}

\* C5: when a requested job is not a node of the flow, run_workflow sends no
\* executeFlow request and ends with the validation error, which names
\* exactly the requested jobs that are not nodes.
C5_ValidatedBeforeSubmit ==
  \A j \in InfoAccepted :
    (op.kind = "run" /\ ~(Requested \subseteq wire[j].reply.nodes)) =>
      /\ Sent("executeFlow") = {}
      /\ pc \in {"check", "ret", "end"}
      /\ pc = "end" =>
           /\ outcome = "validation"
           /\ errnames = Requested \ wire[j].reply.nodes

\* two jobs requested, one of them unknown to a non-empty flow
C5_Witness ==
  /\ op.kind = "run" /\ pc = "end" /\ outcome = "validation"
  /\ Cardinality(Requested) = 2
  /\ Cardinality(errnames) = 1
  /\ \E j \in InfoAccepted : wire[j].reply.nodes # {}

(***************************************************************************)
(* Properties of the project and of its jobs.                              *)
(***************************************************************************)
C6_Step ==
  /\ \A p \in DOMAIN files : p \in DOMAIN files' /\ files'[p] = files[p]
  /\ (pcall'.fn = "add_file" /\ pcall'.path \in DOMAIN files) =>
       /\ files' = files
       /\ perr' = IF files[pcall'.path] = pcall'.archive_path
                     THEN "ok" ELSE "inconsistent"
  /\ (pcall'.fn = "add_file" /\ perr' = "ok") =>
       /\ pcall'.path \in DOMAIN files'
       /\ files'[pcall'.path] = pcall'.archive_path

\* C6: a registered path keeps the one archive destination it was given:
\* add_file of a registered path with the same archive_path raises nothing
\* and leaves the registry unchanged, with another archive_path it raises
\* the conflict error and leaves the registry unchanged; every add_file that
\* returns leaves the path registered with the archive_path passed.
C6_OneDestination == [][C6_Step]_vars

\* a registered path was offered again with another destination
C6_Witness ==
  /\ pcall.fn = "add_file"
  /\ perr = "inconsistent"
  /\ pcall.path \in DOMAIN files
  /\ files[pcall.path] # pcall.archive_path

C7_Step ==
  (pcall'.fn = "add_job" /\ pcall'.name \in DOMAIN jobs) =>
    /\ perr' = "duplicate"
    /\ jobs' = jobs
    /\ files' = files
    /\ hooked' = hooked

\* C7: add_job with a name already registered raises the conflict error,
\* leaves the job registered under the name and the file registry as they
\* were, and does not invoke on_add of the rejected job.
C7_DuplicateJobRejected == [][C7_Step]_vars

\* another job, one whose on_add would register a file, was offered under
\* a taken name
C7_Witness ==
  /\ pcall.fn = "add_job"
  /\ perr = "duplicate"
  /\ jobs[pcall.name] # pcall.job
  /\ pcall.job.cls = "PigJob"
  /\ pcall.job.path \notin DOMAIN files

\* C8: the combined options of a job have as keys the union of the keys of
\* the flattened dictionaries, and under each key the value of the earliest
\* dictionary of the list whose flattened form has the key.
C8_EarliestWins ==
  combined # Unread =>
    LET flat == [i \in DOMAIN job_options |-> Flatten(job_options[i])] IN
      /\ DOMAIN combined = UNION {DOMAIN flat[i] : i \in DOMAIN job_options}
      /\ \A k \in DOMAIN combined :
           \E i \in DOMAIN job_options :
             /\ k \in DOMAIN flat[i]
             /\ \A j \in 1 .. i - 1 : k \notin DOMAIN flat[j]
             /\ combined[k] = flat[i][k]

\* a.b comes from a nested dictionary first and from a dotted key second
C8_Witness ==
  /\ job_options =
       << <<Nested("a", <<Leaf("b", "1")>>)>>, <<Leaf("a.b", "2")>> >>
  /\ combined = [k \in {"a.b"} |-> "1"]

\* the place of a key in the order of strings
Rank(k) == CHOOSE i \in DOMAIN KeyOrder : KeyOrder[i] = k

\* c holds the options as 'key=value' lines, one per key, sorted by key
C9_JobText(c, options) ==
  \E ks \in [1 .. Len(c) -> DOMAIN options] :
    /\ {ks[i] : i \in 1 .. Len(c)} = DOMAIN options
    /\ \A i \in 1 .. Len(c) : c[i] = ks[i] \o "=" \o options[ks[i]]
    /\ \A i, j \in 1 .. Len(c) : i < j => Rank(ks[i]) < Rank(ks[j])

\* the members of the archive written for job n, and for file f
C9_JobMembers(n) ==
  {i \in DOMAIN archive :
     /\ archive[i].name = n \o ".job"
     /\ C9_JobText(archive[i].content, Options(jobs[n].options))}
C9_FileMembers(f) ==
  {i \in DOMAIN archive :
     /\ archive[i].name = (IF files[f] = None THEN f.rel ELSE files[f])
     /\ archive[i].content = FileBytes(f)}

\* C9: after a successful build the archive holds one member for each
\* registered job, named '<name>.job' and holding the job's options as
\* 'key=value' lines sorted by key, one member for each registered file
\* under its archive path (the path itself, less the root, when none was
\* given), and no other member; a build that follows a successful build
\* with no registration in between yields the same members.
C9_ArchiveContents ==
  bpc = "done" =>
    /\ \A n \in DOMAIN jobs : Cardinality(C9_JobMembers(n)) = 1
    /\ \A f \in DOMAIN files : Cardinality(C9_FileMembers(f)) = 1
    /\ Len(archive) = Cardinality(DOMAIN jobs) + Cardinality(DOMAIN files)
    /\ havePrev => {archive[i] : i \in DOMAIN archive} = prev

\* the second build in a row of a project with two jobs and two files
C9_Witness ==
  /\ bpc = "done"
  /\ havePrev
  /\ Cardinality(DOMAIN jobs) = 2
  /\ Cardinality(DOMAIN files) = 2

\* a file registered under the name of a job's member: both are written
C9_WitnessSameName ==
  /\ bpc = "done"
  /\ \E i, j \in DOMAIN archive : i # j /\ archive[i].name = archive[j].name

\* the answer _request handed back to delete_project, if any
DeleteAnswered ==
  /\ op.kind = "delete"
  /\ pc = "end"
  /\ wire # <<>>
  /\ Last(wire).action = "delete"
  /\ ~Last(wire).raised
  /\ ~Last(wire).reply.marker

\* C10: delete_project returns the response only when its text holds the
\* confirmation for the project name passed in (and not the login marker);
\* for every other response that is not an authentication failure, with or
\* without an error field, it raises the remote-operation error.
C10_DeleteNeedsConfirmation ==
  /\ (op.kind = "delete" /\ outcome = "returned") =>
       (DeleteAnswered /\ op.name \in Last(wire).reply.deleted
        /\ res = Last(wire).reply)
  /\ DeleteAnswered =>
       outcome = IF op.name \in Last(wire).reply.deleted
                   THEN "returned" ELSE "remote"

\* a response with no error field that confirms another project's deletion
C10_Witness ==
  /\ DeleteAnswered
  /\ outcome = "remote"
  /\ ~res.error
  /\ res.deleted # {}

(***************************************************************************)
(* Properties of _refresh.                                                 *)
(***************************************************************************)
\* the login that the step leaving _refresh has just put on the wire
C11_Login == Last(wire')

C11_Step ==
  (pc = "refresh" /\ pc' # "refresh") =>
    /\ C11_Login.action = "login"
    /\ (~C11_Login.reply.isNone /\ C11_Login.reply.json
          /\ C11_Login.reply.error) =>
         /\ C11_Login.raised
         /\ pc' = "end"
         /\ outcome' = "login"
         /\ id' = id
    /\ (~C11_Login.reply.isNone /\ C11_Login.reply.json
          /\ ~C11_Login.reply.error /\ C11_Login.reply.token # None) =>
         /\ ~C11_Login.raised
         /\ id' = C11_Login.reply.token
         /\ Truthy(id')
         /\ pc' = "loop"

\* C11: _refresh raises when the login response has an error field and then
\* leaves the session id as it was; when the response has no error field and
\* returns a session id, _refresh stores that id as the session's id, which
\* is then a usable token.
C11_RefreshStoresToken == [][C11_Step]_vars

\* a login was rejected while the session held a token the server had refused
C11_Witness ==
  /\ pc = "end"
  /\ outcome = "login"
  /\ Last(wire).action = "login"
  /\ Last(wire).reply.json
  /\ Last(wire).reply.error
  /\ id = "s0"

\* a login replaced a token the server had refused
C11_WitnessStored ==
  /\ pc = "loop"
  /\ wire # <<>>
  /\ Last(wire).action = "login"
  /\ Len(wire) >= 2
  /\ wire[Len(wire) - 1].tok = "s0"
  /\ id = Last(wire).reply.token

(***************************************************************************)
(* Properties of the file registry and of the disk.                        *)
(***************************************************************************)
\* the step is a call add_file(path, archive_path) with an absolute path
\* that names no file on disk
C12_CallOfMissing ==
  /\ pcall'.fn = "add_file"
  /\ IsAbs(pcall'.path)
  /\ pcall'.path \notin disk

\* C12 as stated: add_file with an absolute path that does not exist on disk
\* raises the missing-file error in every state of the project, also when
\* the path is registered.
C12_MissingAlwaysRaised ==
  [][C12_CallOfMissing => perr' = "missing"]_vars

C12_Step ==
  C12_CallOfMissing =>
    /\ files' = files
    /\ perr' = IF pcall'.path \notin DOMAIN files
                 THEN "missing"
                 ELSE IF files[pcall'.path] = pcall'.archive_path
                        THEN "ok"
                        ELSE "inconsistent"

\* C12, amended: add_file with an absolute path that does not exist on disk
\* raises the missing-file error when the path is not registered; for a
\* registered path the disk is not looked at: the call returns when the
\* archive path is the registered one and raises the conflict error when it
\* is another.  The registry is unchanged in each case.
C12_MissingRaisedForNewPath == [][C12_Step]_vars

\* a registered path whose file was removed is registered again, and the
\* call returns
C12_Witness ==
  /\ pcall.fn = "add_file"
  /\ pcall.path \in DOMAIN files
  /\ pcall.path \notin disk
  /\ perr = "ok"

\* a path never registered names no file, and the call raises
C12_WitnessNew ==
  /\ pcall.fn = "add_file"
  /\ pcall.path \notin DOMAIN files
  /\ IsAbs(pcall.path)
  /\ perr = "missing"

\* every registered path is absolute
C13_Absolute == \A p \in DOMAIN files : IsAbs(p)

\* a build that returns has gone through every registered file
C13_AllWritten == bpc = "done" => todoF = {}

\* a file the second loop of build gets past is on disk at that moment
C13_Step ==
  (bpc = "jobs" /\ bpc' = "jobs" /\ todoF' # todoF) =>
    /\ todoF' \subseteq todoF
    /\ (todoF \ todoF') \subseteq disk
    /\ disk' = disk

\* C13: every path of the file registry is absolute in every state, and a
\* build returns only after it went through every registered file and found
\* each on disk at the moment it wrote it.
C13_RegisteredFilesExist ==
  [](C13_Absolute /\ C13_AllWritten) /\ [][C13_Step]_vars

\* a registered file was removed before build came to it, and build raised
\* with every job written and that file left
C13_Witness ==
  /\ bpc = "failed"
  /\ todoJ = {}
  /\ Len(archive) = Cardinality(DOMAIN jobs)
  /\ DOMAIN jobs # {}
  /\ todoF = DOMAIN files
  /\ todoF # {}
  /\ todoF \cap disk = {}

\* a relative path was offered for registration
C13_WitnessRelative ==
  /\ pcall.fn = "add_job"
  /\ pcall.job.cls = "PigJob"
  /\ ~IsAbs(pcall.job.path)
  /\ perr = "relative"
  /\ files # EmptyDict

(***************************************************************************)
(* Termination of _request.                                                *)
(***************************************************************************)
\* a call of _request is running / has ended
C14_Running == pc \in {"loop", "check", "refresh"}
C14_Ended == pc \in {"ret", "end"}

\* the step that ends a call of _request ends it in one of three ways
C14_Step ==
  (C14_Running /\ ~C14_Running') =>
    \/ /\ pc' = "ret"
       /\ outcome' = "none"
       /\ ~res'.isNone
       /\ ~res'.marker
    \/ /\ pc' = "end"
       /\ outcome' = "exhausted"
       /\ wire' = wire
    \/ /\ pc' = "end"
       /\ outcome' \in {"transport", "login"}
       /\ Len(wire') = Len(wire) + 1
       /\ Last(wire').raised

\* C14: every call of _request ends, given that each request and each login
\* returns or raises; it ends by returning a response, by the
\* session-exhausted error, or by an error raised by a request or by a login;
\* a returned response does not hold the marker.
C14_Terminates ==
  /\ C14_Running ~> C14_Ended
  /\ [](pc = "ret" => (~res.isNone /\ ~res.marker))
  /\ [][C14_Step]_vars

\* a response returned after the whole budget went into refreshes
C14_Witness ==
  /\ pc = "ret"
  /\ budget = MaxAttempts
  /\ nref = budget
  /\ nreq = budget + 1
  /\ \A i \in 1 .. Len(wire) - 1 :
       wire[i].action # "login" => wire[i].reply.marker

(***************************************************************************)
(* Properties of build.                                                    *)
(***************************************************************************)
\* C15: when build returns or raises (after the loops, after an on_build
\* that raised, after a generate that raised, after a write to the archive
\* that raised, for a job or for a file), no temporary job file is left on
\* disk and the archive is closed; at no time is there more than one
\* temporary job file.
C15_TempScoped ==
  /\ Cardinality(temp) <= 1
  /\ bpc \in {"done", "failed", "idle"} => temp = {}
  /\ bpc \in {"done", "failed"} => writer = "closed"

\* build raised at its second job, after on_build: in generate or in the
\* write of the job file
C15_Witness ==
  /\ bpc = "failed"
  /\ Len(built) = 2
  /\ Len(archive) = 1
  /\ cur \notin todoJ

\* build raised in the on_build of its second job
C15_WitnessHook ==
  /\ bpc = "failed"
  /\ Len(built) = 2
  /\ Len(archive) = 1
  /\ cur \in todoJ

\* build raised at a file, after every job
C15_WitnessFile ==
  /\ bpc = "failed"
  /\ Len(built) = 2
  /\ Len(archive) = 3
  /\ todoF # {}

\* on_build was invoked at most once for a job, and for a job of the project
C16_HookOnce ==
  /\ \A i, j \in DOMAIN built : built[i] = built[j] => i = j
  /\ Range(built) \subseteq DOMAIN jobs
  /\ bpc = "done" => Range(built) = DOMAIN jobs

\* the job whose file is being generated or written is the one on_build was
\* last invoked for, and the file written has the options the hook left
C16_HookFirst ==
  /\ bpc \in {"temp", "write", "cleanup"} =>
       /\ built # <<>>
       /\ cur = Last(built)
       /\ jobs[cur].cls = "HookJob" => Head(jobs[cur].options) = HookDict
  /\ (bpc = "write" /\ archive # <<>>) =>
       Len(archive) = Len(built) - 1
  /\ bpc = "done" =>
       \A i \in 1 .. Len(built) :
         /\ archive[i].name = built[i] \o ".job"
         /\ archive[i].content = Generate(jobs[built[i]].options)
         /\ jobs[built[i]].cls = "HookJob" =>
              \E k \in DOMAIN archive[i].content :
                archive[i].content[k] = "type=built"

\* a job file enters the archive while no file has, a file after every job
C16_Step ==
  (archive' # archive /\ bpc' \notin {"idle"} /\ bpc # "idle") =>
    /\ Len(archive') = Len(archive) + 1
    /\ bpc = "write" => todoF = DOMAIN files
    /\ bpc = "jobs" =>
         /\ todoJ = {}
         /\ Len(archive) >= Cardinality(DOMAIN jobs)
         /\ Range(built) = DOMAIN jobs

\* C16: during build on_build is invoked once for each registered job, and
\* before the file of that job is generated, so that the file holds the
\* options as the hook left them; every job file is written to the archive
\* before any registered file is.
C16_HookThenJobsThenFiles ==
  [](C16_HookOnce /\ C16_HookFirst) /\ [][C16_Step]_vars

\* a build of two jobs, one with an overriding on_build, and of a file
C16_Witness ==
  /\ bpc = "done"
  /\ Len(built) = 2
  /\ Len(archive) >= 3
  /\ \E n \in DOMAIN jobs : jobs[n].cls = "HookJob"

(***************************************************************************)
(* Two concurrent calls on one session.                                    *)
(***************************************************************************)
\* each call keeps within its own budget
C17_OwnBudget == \A d \in Dispatches : calls[d].nref <= calls[d].budget

\* a login overwrites the other call's id only after a login of the other
C17_Overwrites ==
  \A d \in Dispatches :
    calls[d].overwrote => (calls[d].nref >= 1 /\ calls[Other(d)].nref >= 1)

\* a request carries an id that is no longer the session's only when the
\* other call logged in between the writing of kwargs and the request
C17_Step ==
  \A d \in Dispatches :
    (calls'[d].stale /\ ~calls[d].stale) =>
      /\ calls[d].pc = "send"
      /\ calls[d].kw # id
      /\ calls[d].overtaken

\* C17: with two calls of _request running at once on one session, a call
\* can send a request carrying an id the login of the other call has
\* replaced, and the two calls can log in more often than the budget of
\* either allows, each login replacing the id the other call stored; each
\* call alone keeps within its budget, and an outdated id is sent only
\* because of a login of the other call.
C17_TokenRace ==
  [](C17_OwnBudget /\ C17_Overwrites) /\ [][C17_Step]_vars

\* the race: an outdated id was sent, the logins of the two calls replaced
\* each other's id, and there were more logins than either budget
C17_Witness ==
  /\ \E d \in Dispatches : calls[d].stale
  /\ \A d \in Dispatches : calls[d].overwrote
  /\ \A d \in Dispatches :
       calls[1].nref + calls[2].nref > calls[d].budget

(***************************************************************************)
(* Properties of upload.                                                   *)
(***************************************************************************)
\* C18: when the answer to the upload request has an error field, upload
\* raises AzkabanError with the error text of that answer, whether the
\* session id was passed in or obtained by a login of the same call; when
\* upload has returned or raised, nothing is left at the temporary path.
C18_UploadErrorReported ==
  upc = "end" =>
    /\ ~tmparchive
    /\ (upload_res.bound /\ upload_res.error # None) =>
         uraised = Raised("AzkabanError", upload_res.error)

\* the part of C18 about the temporary archive
C18_ArchiveRemoved == upc \in {"end", "idle"} => ~tmparchive

(***************************************************************************)
(* The session id on the wire.                                             *)
(***************************************************************************)
\* an absent token: null or empty
C19_Absent(t) == t = None \/ t = ""

\* no message but a login has gone out with an absent token
C19_State ==
  \A i \in DOMAIN wire :
    wire[i].action # "login" => ~C19_Absent(wire[i].tok)

C19_Step ==
  \* a request that goes out carries the session's id, where it belongs
  /\ (Len(wire') = Len(wire) + 1 /\ Last(wire').action # "login") =>
       /\ pc = "loop"
       /\ ~C19_Absent(id)
       /\ Last(wire').tok = id
       /\ Last(wire').place = IF use_cookies THEN "cookie" ELSE "data"
  \* with an absent token the pass sends nothing
  /\ (pc = "loop" /\ C19_Absent(id)) =>
       /\ wire' = wire
       /\ pc' = "check"
       /\ res'.isNone
  \* and goes on to refresh or to the exhausted error
  /\ (pc = "check" /\ res.isNone) =>
       /\ wire' = wire
       /\ \/ pc' = "refresh"
          \/ pc' = "end" /\ outcome' = "exhausted"

\* C19: no request other than the login of _refresh is sent while the
\* session id is None or empty: the pass of _request goes on to _refresh or
\* to the session-exhausted error; every request sent carries the session
\* id of that moment, in the cookie when use_cookies is true and in the
\* request data otherwise.
C19_NoRequestWithoutToken == []C19_State /\ [][C19_Step]_vars

\* a call that began without a token, logged in, and sent its first request
\* with the id of the login in the request data
C19_Witness ==
  /\ Len(wire) = 2
  /\ wire[1].action = "login"
  /\ wire[2].action # "login"
  /\ wire[2].place = "data"
  /\ wire[2].tok = wire[1].reply.token

(***************************************************************************)
(* Failing registrations.                                                  *)
(***************************************************************************)
\* the step is a call of add_file or of add_job that raises
C20_FailedCall == pcall'.fn \in {"add_file", "add_job"} /\ perr' # "ok"

\* C20: a call of add_file or of add_job that raises leaves the job registry
\* and the file registry as they were before the call, also when it is the
\* on_add of the job that raises.
C20_FailedCallChangesNothing ==
  [][C20_FailedCall => (jobs' = jobs /\ files' = files)]_vars

\* the part of C20 that the code keeps: the file registry, and the job
\* registry when the error is not raised by on_add
C20_FailedCallKeepsFiles ==
  [][C20_FailedCall =>
       /\ files' = files
       /\ (pcall'.fn = "add_file" \/ perr' = "duplicate") => jobs' = jobs]_vars
====
